---- MODULE Spec2Model ----
(***************************************************************************)
(* KubeOperation (src/kube.py): reallocation of a deployment's pods away   *)
(* from a list of nodes.  The model holds the deployment as the API server *)
(* stores it, the fields of one KubeOperation object, and the position of  *)
(* the single thread that constructs the object and runs reallocate_pod.   *)
(* Every API call is one step; its answer (accepted or failed) is chosen   *)
(* by the environment.  A failed mutating call leaves the server as it was.*)
(*                                                                         *)
(* Environment: the deployment is neither created nor deleted while the    *)
(* object lives, so a read answers 'Not Found' only in the constructor;    *)
(* the status always carries a list of conditions (possibly empty).        *)
(* Spec: nothing but this object writes the deployment's spec, and the     *)
(* cluster may rewrite the status conditions at any moment.                *)
(* SpecW: another client writes the deployment's spec up to MaxWrites      *)
(* times, between the construction and the end of _update_pod_affinity,    *)
(* while the status conditions stay as they were; a full replace whose     *)
(* body carries another generation than the server's is rejected.          *)
(***************************************************************************)
EXTENDS Integers, Sequences, FiniteSets, TLC

\* ---------------------------------------------------------------- bounds
MaxReplicas == 1
MaxValues == 1
MaxWrites == 1

\* ------------------------------------------------------ program constants
\* `if tries >= 60` in _set_pod_replica, _update_pod_affinity, reallocate_pod
ReplicaMaxTries == 60
AffinityMaxTries == 60
PollMaxTries == 60
\* time.sleep(3) after the soft attempt, time.sleep(1) everywhere else
SettleDelay == 3
RetryDelay == 1

KUBE_ERROR_TYPE == "ReplicaFailure"
KUBE_AVAILABLE_TYPE == "Available"

Hostnames == {"n1", "n2"}
\* the lists a caller may pass as `values`
ValueLists == UNION {[1..n -> Hostnames] : n \in 0..MaxValues}

\* the condition lists a deployment's status may carry
ConditionSets == SUBSET {KUBE_AVAILABLE_TYPE, KUBE_ERROR_TYPE}

\* spec.template.spec.affinity: a list of preferred scheduling terms
NoAffinity == << >>
OtherAffinity == << [weight |-> 5, key |-> "zone", operator |-> "In", values |-> <<"z1">>] >>

\* the V1Affinity built at the head of _update_pod_affinity
V1Affinity(vals) ==
    << [weight |-> 1, key |-> "kubernetes.io/hostname", operator |-> "In", values |-> vals] >>

VARIABLES
    exists,               \* the deployment exists on the server
    deployment,           \* the deployment as the server stores it
    resource,             \* self.resource
    num_replicas_before,  \* self.num_replicas_before
    current_version,      \* self.current_version
    pc,                   \* position of the thread
    caller,               \* call site of the running _set_pod_replica
    replica_number,       \* argument of the running _set_pod_replica
    tries,                \* local `tries` of the running loop
    status_list,          \* local `status_list` of reallocate_pod
    values,               \* argument of reallocate_pod
    result,               \* 'status' of the returned dict
    exc,                  \* exception that left __init__ or reallocate_pod
    raisedBy,             \* function whose `raise KubernetesException` ran
    accepted,             \* mutating calls the API accepted, in order
    attempts,             \* mutating calls issued by the running operation
    failures,             \* of which the API failed
    succeeded,            \* the running operation's call has been accepted
    waits,                \* time.sleep(1) calls of the running loop
    reads,                \* reads issued by the running operation
    lastSleep,            \* seconds of the most recent time.sleep
    softStatus,           \* what the read after the settle delay found
    hardInvoked,          \* _set_pod_replica(0) has been called
    patchSent,            \* a replica patch has been sent in this run
    affExhausted,         \* the replace loop took its `tries >= 60` branch
    rollback,             \* arguments of the rollback calls so far
    replicasAtCall,       \* the server's replica count when reallocate_pod was called
    initAnswer,           \* the API's answer to the constructor's read
    writes                \* writes of the deployment's spec by another client

srv == <<exists, deployment>>
obj == <<resource, num_replicas_before, current_version>>
ctl == <<pc, caller, replica_number, tries, status_list, values, result, exc, raisedBy>>
hist == <<accepted, attempts, failures, succeeded, waits, reads, lastSleep,
          softStatus, hardInvoked, patchSent, affExhausted, rollback,
          replicasAtCall, initAnswer, writes>>
vars == <<exists, deployment, resource, num_replicas_before, current_version,
          pc, caller, replica_number, tries, status_list, values, result, exc,
          raisedBy, accepted, attempts, failures, succeeded, waits, reads, lastSleep,
          softStatus, hardInvoked, patchSent, affExhausted, rollback,
          replicasAtCall, initAnswer, writes>>

NoResource == [replicas |-> 0, generation |-> 0, affinity |-> NoAffinity, conditions |-> {}]

Init ==
    /\ exists \in BOOLEAN
    /\ deployment \in [replicas : 0..MaxReplicas, generation : {1},
                       affinity : {NoAffinity, OtherAffinity},
                       conditions : ConditionSets]
    /\ resource = NoResource
    /\ num_replicas_before = 0
    /\ current_version = 0
    /\ pc = "new"
    /\ caller = "none"
    /\ replica_number = 0
    /\ tries = 0
    /\ status_list = {}
    /\ values = << >>
    /\ result = FALSE
    /\ exc = "none"
    /\ raisedBy = "none"
    /\ accepted = << >>
    /\ attempts = 0
    /\ failures = 0
    /\ succeeded = FALSE
    /\ waits = 0
    /\ reads = 0
    /\ lastSleep = 0
    /\ softStatus = "unread"
    /\ hardInvoked = FALSE
    /\ patchSent = FALSE
    /\ affExhausted = FALSE
    /\ rollback = << >>
    /\ replicasAtCall = 0
    /\ initAnswer = "none"
    /\ writes = 0

\* ------------------------------------------------------------ the server
\* what read_namespaced_deployment can answer in the current state
Answers == IF exists THEN {"ok", "error"} ELSE {"Not Found", "error"}

\* the deployment controller rewrites the status conditions at any time
Controller ==
    /\ pc \notin {"new", "done", "raised", "init_failed"}
    /\ \E c \in ConditionSets :
          /\ c # deployment.conditions
          /\ deployment' = [deployment EXCEPT !.conditions = c]
    /\ UNCHANGED <<exists, obj, ctl, hist>>

\* ------------------------------------------------- _get_deployment_info
\* variant: the 'Not Found' reason is not translated
get_deployment_info_untranslated(resp) ==
    IF resp = "ok" THEN [exc |-> "none", obj |-> deployment]
    ELSE [exc |-> "ApiException", obj |-> NoResource]

\* the outcome of one read: the object, or the exception raised
get_deployment_info(resp) ==
    IF resp = "ok" THEN [exc |-> "none", obj |-> deployment]
    ELSE IF resp = "Not Found"
         THEN [exc |-> "KubernetesDeploymentNotFoundException", obj |-> NoResource]
         ELSE [exc |-> "ApiException", obj |-> NoResource]

\* _get_deployment_status: the condition types of a fetched object
ConditionTypes(o) == o.conditions

\* ---------------------------------------------------------------- __init__
Construct ==
    /\ pc = "new"
    /\ \E resp \in Answers :
         LET r == get_deployment_info(resp) IN
         /\ reads' = reads + 1
         /\ initAnswer' = resp
         /\ IF r.exc = "none"
            THEN /\ resource' = r.obj
                 /\ num_replicas_before' = r.obj.replicas
                 /\ current_version' = r.obj.generation
                 /\ pc' = "ready"
                 /\ exc' = exc
            ELSE /\ pc' = "init_failed"
                 /\ exc' = r.exc
                 /\ UNCHANGED obj
    /\ UNCHANGED <<srv, caller, replica_number, tries, status_list, values, result, raisedBy>>
    /\ UNCHANGED <<accepted, attempts, failures, succeeded, waits, lastSleep,
                   softStatus, hardInvoked, patchSent, affExhausted, rollback,
                   replicasAtCall, writes>>

\* ------------------------------------------------------- reallocate_pod
\* `except KubernetesException` at the end of reallocate_pod
Caught(e) == e = "KubernetesException"

\* exception e reaches the try block's handlers
Leave(e) ==
    IF Caught(e)
    THEN /\ pc' = "done"
         /\ result' = FALSE
         /\ exc' = exc
    ELSE /\ pc' = "raised"
         /\ result' = result
         /\ exc' = e

\* a call of _set_pod_replica(n) from call site `site` begins
StartSetPodReplica(site, n) ==
    /\ pc' = "patch"
    /\ caller' = site
    /\ replica_number' = n
    /\ tries' = 0
    /\ attempts' = 0
    /\ failures' = 0
    /\ succeeded' = FALSE
    /\ waits' = 0
    /\ reads' = 0

\* variant: _update_pod_affinity reads the deployment before its first attempt
FirstSnapshot_fresh == deployment

\* the object the first pass of the loop works on: self.resource as it is
FirstSnapshot == resource

\* reallocate_pod(values) is called; _update_pod_affinity builds the affinity
\* and enters its loop
Reallocate ==
    /\ pc = "ready"
    /\ \E v \in ValueLists : values' = v
    /\ pc' = "replace"
    /\ tries' = 0
    /\ attempts' = 0
    /\ failures' = 0
    /\ succeeded' = FALSE
    /\ waits' = 0
    /\ reads' = 0
    /\ resource' = FirstSnapshot
    /\ UNCHANGED <<srv, num_replicas_before, current_version, caller, replica_number,
                   status_list, result, exc, raisedBy>>
    /\ replicasAtCall' = deployment.replicas
    /\ UNCHANGED <<accepted, lastSleep, softStatus, hardInvoked, patchSent,
                   affExhausted, rollback, initAnswer, writes>>

\* ------------------------------------------------- _update_pod_affinity
\* variant: the loop does not leave on success
update_pod_affinity_step_nobreak(ok, t) ==
    IF t >= AffinityMaxTries THEN (IF ok THEN "break" ELSE "exhausted") ELSE "retry"

\* what one pass of the loop does after the replace call answered
update_pod_affinity_step(ok, t) ==
    IF ok THEN "break"
    ELSE IF t >= AffinityMaxTries THEN "exhausted" ELSE "retry"

\* variant: the new term is added to the affinity the object has
ReplaceBody_append(res, vals) == [res EXCEPT !.affinity = res.affinity \o V1Affinity(vals)]

\* the body of a replace: the cached object with the new affinity
ReplaceBody(res, vals) == [res EXCEPT !.affinity = V1Affinity(vals)]

\* the server after it accepted a full replace with `body`
Replaced(d, body) ==
    [d EXCEPT !.replicas = body.replicas, !.affinity = body.affinity,
              !.generation = d.generation + 1]

\* the body was read at another generation than the server's
Conflict(body) == body.generation # deployment.generation

\* what replace_namespaced_deployment can answer: TRUE accepted, FALSE failed
ReplaceAnswers(body) == IF Conflict(body) THEN {FALSE} ELSE BOOLEAN

UpdatePodAffinityTry ==
    /\ pc = "replace"
    /\ LET body == ReplaceBody(resource, values) IN
       \E ok \in ReplaceAnswers(body) :
         LET step == update_pod_affinity_step(ok, tries) IN
         /\ resource' = body
         /\ attempts' = attempts + 1
         /\ failures' = IF ok THEN failures ELSE failures + 1
         /\ \/ /\ step = "break"
               /\ deployment' = Replaced(deployment, body)
               /\ accepted' = Append(accepted, [call |-> "replace", replicas |-> body.replicas])
               /\ succeeded' = TRUE
               /\ pc' = "replaced"
               /\ UNCHANGED <<tries, waits, lastSleep, affExhausted>>
            \/ /\ step = "retry"
               /\ tries' = tries + 1
               /\ waits' = waits + 1
               /\ lastSleep' = RetryDelay
               /\ pc' = "refetch"
               /\ UNCHANGED <<deployment, accepted, succeeded, affExhausted>>
            \/ /\ step = "exhausted"
               /\ affExhausted' = TRUE
               /\ pc' = "exhausted"
               /\ UNCHANGED <<deployment, accepted, succeeded, tries, waits, lastSleep>>
    /\ UNCHANGED <<exists, num_replicas_before, current_version, caller, replica_number,
                   status_list, values, result, exc, raisedBy>>
    /\ UNCHANGED <<reads, softStatus, hardInvoked, patchSent, rollback,
                   replicasAtCall, initAnswer, writes>>

\* variant: the retry keeps the object of the failed attempt
RetrySnapshot_stale(fetched, cached) == cached

\* `self.resource = updated`: the object the next pass works on
RetrySnapshot(fetched, cached) == fetched

\* the re-fetch before a retry
UpdatePodAffinityRefetch ==
    /\ pc = "refetch"
    /\ \E resp \in Answers :
         LET r == get_deployment_info(resp) IN
         /\ reads' = reads + 1
         /\ IF r.exc = "none"
            THEN /\ resource' = RetrySnapshot(r.obj, resource)
                 /\ current_version' = r.obj.generation
                 /\ pc' = "replace"
                 /\ UNCHANGED <<result, exc>>
            ELSE /\ Leave(r.exc)
                 /\ UNCHANGED <<resource, current_version>>
    /\ UNCHANGED <<srv, num_replicas_before, caller, replica_number, tries, status_list,
                   values, raisedBy>>
    /\ UNCHANGED <<accepted, attempts, failures, succeeded, waits, lastSleep,
                   softStatus, hardInvoked, patchSent, affExhausted, rollback,
                   replicasAtCall, initAnswer, writes>>

\* the rollback of the `tries >= 60` branch begins
UpdatePodAffinityRollback ==
    /\ pc = "exhausted"
    /\ rollback' = Append(rollback, num_replicas_before)
    /\ StartSetPodReplica("rollback", num_replicas_before)
    /\ UNCHANGED <<srv, obj, status_list, values, result, exc, raisedBy>>
    /\ UNCHANGED <<accepted, lastSleep, softStatus, hardInvoked, patchSent, affExhausted,
                   replicasAtCall, initAnswer, writes>>

\* the read after the loop, then reallocate_pod's settle delay
UpdatePodAffinityFetch ==
    /\ pc = "replaced"
    /\ \E resp \in Answers :
         LET r == get_deployment_info(resp) IN
         /\ reads' = reads + 1
         /\ IF r.exc = "none"
            THEN /\ resource' = r.obj
                 /\ lastSleep' = SettleDelay
                 /\ pc' = "soft_read"
                 /\ UNCHANGED <<result, exc>>
            ELSE /\ Leave(r.exc)
                 /\ UNCHANGED <<resource, lastSleep>>
    /\ UNCHANGED <<srv, num_replicas_before, current_version, caller, replica_number,
                   tries, status_list, values, raisedBy>>
    /\ UNCHANGED <<accepted, attempts, failures, succeeded, waits,
                   softStatus, hardInvoked, patchSent, affExhausted, rollback,
                   replicasAtCall, initAnswer, writes>>

\* ----------------------------------------------------- _set_pod_replica
\* variant: `tries > 60` in place of `tries >= 60`
set_pod_replica_step_late(ok, t) ==
    IF ok THEN "break"
    ELSE IF t > ReplicaMaxTries THEN "raise" ELSE "retry"

\* variant: the loop has no budget
set_pod_replica_step_forever(ok, t) == IF ok THEN "break" ELSE "retry"

\* what one pass of the loop does after the patch call answered
set_pod_replica_step(ok, t) ==
    IF ok THEN "break"
    ELSE IF t >= ReplicaMaxTries THEN "raise" ELSE "retry"

\* the server after it accepted the patch {'spec': {'replicas': n}}
Patched(d, n) == [d EXCEPT !.replicas = n, !.generation = d.generation + 1]

SetPodReplicaTry ==
    /\ pc = "patch"
    /\ \E ok \in BOOLEAN :
         LET step == set_pod_replica_step(ok, tries) IN
         /\ attempts' = attempts + 1
         /\ failures' = IF ok THEN failures ELSE failures + 1
         /\ patchSent' = TRUE
         /\ \/ /\ step = "break"
               /\ deployment' = Patched(deployment, replica_number)
               /\ accepted' = Append(accepted, [call |-> "patch", replicas |-> replica_number])
               /\ succeeded' = TRUE
               /\ pc' = "patched"
               /\ UNCHANGED <<tries, waits, lastSleep, result, exc, raisedBy>>
            \/ /\ step = "retry"
               /\ tries' = tries + 1
               /\ waits' = waits + 1
               /\ lastSleep' = RetryDelay
               /\ pc' = "patch"
               /\ UNCHANGED <<deployment, accepted, succeeded, result, exc, raisedBy>>
            \/ /\ step = "raise"
               /\ raisedBy' = "_set_pod_replica"
               /\ Leave("KubernetesException")
               /\ UNCHANGED <<deployment, accepted, succeeded, tries, waits, lastSleep>>
    /\ UNCHANGED <<exists, obj, caller, replica_number, status_list, values>>
    /\ UNCHANGED <<reads, softStatus, hardInvoked, affExhausted, rollback,
                   replicasAtCall, initAnswer, writes>>

\* variant: the two hard-mode calls in the other order
HardModeTargets_swapped == <<num_replicas_before, 0>>

\* variant: the second hard-mode call repeats the first
HardModeTargets_zero_twice == <<0, 0>>

\* variant: the restore takes the replica count the server holds
HardModeTargets_stale == <<0, deployment.replicas>>

\* the two replica counts of hard mode, in the order they are set
HardModeTargets == <<0, num_replicas_before>>

\* the read after the loop, then what the call site does next
SetPodReplicaFetch ==
    /\ pc = "patched"
    /\ \E resp \in Answers :
         LET r == get_deployment_info(resp) IN
         IF r.exc = "none"
         THEN /\ current_version' = r.obj.generation
              /\ resource' = r.obj
              /\ \/ /\ caller = "zero"
                    /\ lastSleep' = RetryDelay
                    /\ StartSetPodReplica("restore", HardModeTargets[2])
                    /\ UNCHANGED <<result, exc, raisedBy>>
                 \/ /\ caller = "restore"
                    /\ pc' = "conv_read"
                    /\ reads' = reads + 1
                    /\ UNCHANGED <<caller, replica_number, tries, attempts, failures,
                                   succeeded, waits, lastSleep, result, exc, raisedBy>>
                 \/ /\ caller = "rollback"
                    /\ raisedBy' = "_update_pod_affinity"
                    /\ Leave("KubernetesException")
                    /\ reads' = reads + 1
                    /\ UNCHANGED <<caller, replica_number, tries, attempts, failures,
                                   succeeded, waits, lastSleep>>
         ELSE /\ Leave(r.exc)
              /\ reads' = reads + 1
              /\ UNCHANGED <<resource, current_version, caller, replica_number, tries,
                             attempts, failures, succeeded, waits, lastSleep, raisedBy>>
    /\ UNCHANGED <<srv, num_replicas_before, status_list, values>>
    /\ UNCHANGED <<accepted, softStatus, hardInvoked, patchSent, affExhausted, rollback,
                   replicasAtCall, initAnswer, writes>>

\* ----------------------------------------- reallocate_pod, after soft mode
\* variant: hard mode whatever the status says
NeedsHardMode_always(sl) == TRUE

\* variant: the gate tests for the absence of the error type
NeedsHardMode_negated(sl) == KUBE_ERROR_TYPE \notin sl

\* `if self.KUBE_ERROR_TYPE in status_list` after the settle delay
NeedsHardMode(sl) == KUBE_ERROR_TYPE \in sl

\* the status read after the settle delay and the escalation gate
SoftStatusRead ==
    /\ pc = "soft_read"
    /\ \E resp \in Answers :
         LET r == get_deployment_info(resp) IN
         IF r.exc = "none"
         THEN /\ resource' = r.obj
              /\ status_list' = ConditionTypes(r.obj)
              /\ softStatus' = IF KUBE_ERROR_TYPE \in ConditionTypes(r.obj)
                               THEN "present" ELSE "absent"
              /\ IF NeedsHardMode(ConditionTypes(r.obj))
                 THEN /\ hardInvoked' = TRUE
                      /\ StartSetPodReplica("zero", HardModeTargets[1])
                 ELSE /\ pc' = "conv_read"
                      /\ reads' = reads + 1
                      /\ UNCHANGED <<hardInvoked, caller, replica_number, tries, attempts,
                                     failures, succeeded, waits>>
              /\ UNCHANGED <<result, exc>>
         ELSE /\ Leave(r.exc)
              /\ reads' = reads + 1
              /\ UNCHANGED <<resource, status_list, softStatus, hardInvoked, caller,
                             replica_number, tries, attempts, failures, succeeded, waits>>
    /\ UNCHANGED <<srv, num_replicas_before, current_version, values, raisedBy>>
    /\ UNCHANGED <<accepted, lastSleep, patchSent, affExhausted, rollback,
                   replicasAtCall, initAnswer, writes>>

\* the first status read of the convergence wait; `tries = 0`
ConvergeRead ==
    /\ pc = "conv_read"
    /\ \E resp \in Answers :
         LET r == get_deployment_info(resp) IN
         IF r.exc = "none"
         THEN /\ resource' = r.obj
              /\ status_list' = ConditionTypes(r.obj)
              /\ pc' = "conv_loop"
              /\ UNCHANGED <<result, exc>>
         ELSE /\ Leave(r.exc)
              /\ UNCHANGED <<resource, status_list>>
    /\ caller' = "none"
    /\ tries' = 0
    /\ attempts' = 0
    /\ failures' = 0
    /\ succeeded' = FALSE
    /\ waits' = 0
    /\ reads' = 1
    /\ UNCHANGED <<srv, num_replicas_before, current_version, replica_number, values,
                   raisedBy>>
    /\ UNCHANGED <<accepted, lastSleep, softStatus,
                   hardInvoked, patchSent, affExhausted, rollback,
                   replicasAtCall, initAnswer, writes>>

\* variant: the budget is tested before the loop condition
converge_step_budget_first(sl, t) ==
    IF t >= PollMaxTries THEN "raise"
    ELSE IF KUBE_ERROR_TYPE \notin sl THEN "return" ELSE "poll"

\* variant: `tries > 60` in place of `tries >= 60`
converge_step_late(sl, t) ==
    IF KUBE_ERROR_TYPE \notin sl THEN "return"
    ELSE IF t > PollMaxTries THEN "raise" ELSE "poll"

\* what one evaluation of the convergence loop does
converge_step(sl, t) ==
    IF KUBE_ERROR_TYPE \notin sl THEN "return"
    ELSE IF t >= PollMaxTries THEN "raise" ELSE "poll"

\* one pass of `while self.KUBE_ERROR_TYPE in status_list`
ConvergeStep ==
    /\ pc = "conv_loop"
    /\ LET step == converge_step(status_list, tries) IN
       \/ /\ step = "return"
          /\ pc' = "done"
          /\ result' = TRUE
          /\ UNCHANGED <<resource, status_list, tries, waits, reads, lastSleep, exc, raisedBy>>
       \/ /\ step = "raise"
          /\ raisedBy' = "reallocate_pod"
          /\ Leave("KubernetesException")
          /\ UNCHANGED <<resource, status_list, tries, waits, reads, lastSleep>>
       \/ /\ step = "poll"
          /\ tries' = tries + 1
          /\ waits' = waits + 1
          /\ lastSleep' = RetryDelay
          /\ reads' = reads + 1
          /\ raisedBy' = raisedBy
          /\ \E resp \in Answers :
               LET r == get_deployment_info(resp) IN
               IF r.exc = "none"
               THEN /\ resource' = r.obj
                    /\ status_list' = ConditionTypes(r.obj)
                    /\ UNCHANGED <<pc, result, exc>>
               ELSE /\ Leave(r.exc)
                    /\ UNCHANGED <<resource, status_list>>
    /\ UNCHANGED <<srv, num_replicas_before, current_version, caller, replica_number, values>>
    /\ UNCHANGED <<accepted, attempts, failures, succeeded, softStatus, hardInvoked,
                   patchSent, affExhausted, rollback,
                   replicasAtCall, initAnswer, writes>>

Next ==
    \/ Construct
    \/ Reallocate
    \/ UpdatePodAffinityTry
    \/ UpdatePodAffinityRefetch
    \/ UpdatePodAffinityRollback
    \/ UpdatePodAffinityFetch
    \/ SoftStatusRead
    \/ SetPodReplicaTry
    \/ SetPodReplicaFetch
    \/ ConvergeRead
    \/ ConvergeStep
    \/ Controller

Spec == Init /\ [][Next]_vars

\* ------------------------------------------------------- another client
\* the affinities another client's workflow may set
OtherAffinities == {V1Affinity(v) : v \in ValueLists}

\* an accepted write by another client: a replica patch or a full replace
\* that carries the affinity of its own workflow.  It happens between the
\* construction of this object and the read that ends _update_pod_affinity.
OtherWriter ==
    /\ pc \in {"ready", "replace", "refetch", "replaced"}
    /\ writes < MaxWrites
    /\ writes' = writes + 1
    /\ \/ \E n \in 0..MaxReplicas :
             /\ n # deployment.replicas
             /\ deployment' = Patched(deployment, n)
       \/ \E a \in OtherAffinities :
             /\ a # deployment.affinity
             /\ deployment' = [deployment EXCEPT !.affinity = a,
                                                 !.generation = deployment.generation + 1]
    /\ UNCHANGED <<exists, obj, ctl>>
    /\ UNCHANGED <<accepted, attempts, failures, succeeded, waits, reads, lastSleep,
                   softStatus, hardInvoked, patchSent, affExhausted, rollback,
                   replicasAtCall, initAnswer>>

NextW ==
    \/ Construct
    \/ Reallocate
    \/ UpdatePodAffinityTry
    \/ UpdatePodAffinityRefetch
    \/ UpdatePodAffinityRollback
    \/ UpdatePodAffinityFetch
    \/ SoftStatusRead
    \/ SetPodReplicaTry
    \/ SetPodReplicaFetch
    \/ ConvergeRead
    \/ ConvergeStep
    \/ OtherWriter

SpecW == Init /\ [][NextW]_vars

\* =================================================================== claims
Terminated == pc \in {"done", "raised"}
InRetryLoop == pc \in {"replace", "refetch", "patch"}
HasReplace == \E i \in 1..Len(accepted) : accepted[i].call = "replace"
NoPatchAccepted == \A i \in 1..Len(accepted) : accepted[i].call # "patch"

\* C1: once construction has succeeded, reallocate_pod never raises to its
\* caller; it ends by returning status True or status False.
C1_NeverRaises == pc # "raised"

\* C2: in a run whose soft affinity update succeeded, hard mode is invoked if
\* and only if ReplicaFailure is in the conditions read right after the
\* 3-second settle delay.
C2_EscalationGate ==
    /\ hardInvoked <=> softStatus = "present"
    /\ pc = "soft_read" => lastSleep = SettleDelay /\ succeeded /\ HasReplace
    /\ softStatus # "unread" => HasReplace

C2_Witness == hardInvoked /\ softStatus = "present" /\ pc = "patch" /\ attempts = 1

\* C3 as stated: a retry loop whose call fails every time gives up after
\* exactly 60 attempts.
C3_SixtyAttempts ==
    /\ pc = "exhausted" => attempts = AffinityMaxTries
    /\ raisedBy = "_set_pod_replica" => attempts = ReplicaMaxTries

\* C3 amended: a retry loop whose call fails every time makes exactly 61
\* attempts (the first and 60 retries) with one 1-second wait before each
\* retry (60 waits), makes no further attempt and takes its exhaustion branch:
\* _set_pod_replica raises KubernetesException, _update_pod_affinity begins
\* its rollback.
C3_SixtyOneAttempts ==
    /\ pc = "exhausted" =>
          /\ attempts = AffinityMaxTries + 1
          /\ failures = attempts
          /\ waits = AffinityMaxTries
    /\ raisedBy = "_set_pod_replica" =>
          /\ attempts = ReplicaMaxTries + 1
          /\ failures = attempts
          /\ waits = ReplicaMaxTries
          /\ pc = "done" /\ ~result
    /\ pc = "replace" => waits = attempts /\ attempts <= AffinityMaxTries
    /\ pc = "patch" => waits = attempts /\ attempts <= ReplicaMaxTries
    /\ pc = "refetch" => waits = attempts /\ lastSleep = RetryDelay
    /\ waits > 0 /\ InRetryLoop => lastSleep = RetryDelay

C3_Witness ==
    /\ affExhausted
    /\ raisedBy = "_set_pod_replica"
    /\ caller = "rollback"
    /\ attempts = ReplicaMaxTries + 1

\* C4: a retry loop whose call first succeeds on attempt k issues exactly k
\* attempts (k - 1 failed ones and the accepted one), none after it, and does
\* not raise KubernetesException for that call.
C4_StopsAtFirstSuccess ==
    /\ pc \in {"replace", "refetch", "patch", "replaced", "patched"} =>
          IF succeeded THEN attempts = failures + 1 ELSE attempts = failures
    /\ succeeded => ~InRetryLoop /\ pc # "exhausted"
    /\ succeeded => raisedBy # "_set_pod_replica"
    /\ HasReplace => ~affExhausted /\ raisedBy # "_update_pod_affinity"

C4_Witness == pc = "replaced" /\ succeeded /\ attempts = AffinityMaxTries

\* C5: when the replace exhausts its budget, _set_pod_replica is called with
\* the original replica count, and reallocate_pod returns status False with
\* the deployment's replicas at the original value.
C5_RollbackThenFalse ==
    affExhausted /\ Terminated =>
        /\ rollback = <<num_replicas_before>>
        /\ pc = "done" /\ ~result
        /\ deployment.replicas = num_replicas_before

\* C6: when ReplicaFailure is absent from the conditions read after the soft
\* attempt, no replica patch is sent in the run and the deployment's replicas
\* stay at their value from before the run.
C6_NoReplicaMutation ==
    softStatus = "absent" =>
        /\ ~patchSent
        /\ NoPatchAccepted
        /\ deployment.replicas = replicasAtCall
        /\ \A i \in 1..Len(accepted) : accepted[i].replicas = replicasAtCall

C6_Witness == pc = "done" /\ result /\ softStatus = "absent" /\ Len(accepted) = 1

\* C7 as stated: when ReplicaFailure is absent from the conditions read after
\* the settle delay, the result returned is status True whatever the later
\* reads find.
C7_AlwaysTrue == pc = "done" /\ softStatus = "absent" => result

\* C7 amended: when ReplicaFailure is absent from the conditions read after
\* the settle delay, the result reallocate_pod returns is status True exactly
\* when the last convergence read also found it absent, and status False
\* only after the first convergence read and all 60 polls found it present.
C7_TrueUnlessReappears ==
    pc = "done" /\ softStatus = "absent" =>
        /\ result <=> KUBE_ERROR_TYPE \notin status_list
        /\ ~result => raisedBy = "reallocate_pod" /\ tries = PollMaxTries /\ reads = PollMaxTries + 1
        /\ ~patchSent

C7_Witness == pc = "done" /\ softStatus = "absent" /\ ~result /\ tries = PollMaxTries

\* C8: after hard mode, while ReplicaFailure stays present the convergence
\* loop makes 60 polls, each after a 1-second wait, then stops and the result
\* is status False; a poll that finds it absent is the last one and the
\* result is status True.
C8_ConvergenceTimeout ==
    hardInvoked /\ caller = "none" =>
        /\ pc = "conv_loop" => reads = tries + 1 /\ waits = tries /\ tries <= PollMaxTries
        /\ pc = "done" /\ ~result =>
              /\ raisedBy = "reallocate_pod"
              /\ KUBE_ERROR_TYPE \in status_list
              /\ tries = PollMaxTries /\ waits = PollMaxTries /\ reads = PollMaxTries + 1
        /\ pc = "done" /\ result =>
              /\ KUBE_ERROR_TYPE \notin status_list
              /\ reads = tries + 1 /\ waits = tries
        /\ tries > 0 => lastSleep = RetryDelay

C8_Witness ==
    /\ hardInvoked /\ pc = "done" /\ ~result
    /\ raisedBy = "reallocate_pod" /\ Len(accepted) = 3 /\ waits = PollMaxTries

\* C9: construction on a deployment the API reports as not found fails with
\* KubernetesDeploymentNotFoundException after one read, with no retry and no
\* mutating call, and reallocate_pod is never reached; any other failure of
\* that read leaves the constructor as the API's own exception, also after
\* one read.
C9_InitFailure ==
    /\ ~exists => pc \in {"new", "init_failed"}
    /\ initAnswer = "Not Found" =>
          pc = "init_failed" /\ exc = "KubernetesDeploymentNotFoundException"
    /\ initAnswer = "error" => pc = "init_failed" /\ exc = "ApiException"
    /\ pc = "init_failed" =>
          /\ reads = 1
          /\ attempts = 0 /\ accepted = << >> /\ ~patchSent
          /\ resource = NoResource

C9_Witness ==
    pc = "init_failed" /\ exc = "KubernetesDeploymentNotFoundException" /\ reads = 1

\* C10: in hard mode the API accepts the mutating calls in the order replace,
\* patch to 0, patch to the original count; the restore patch is only issued
\* once the patch to 0 was accepted; and when the first status read after the
\* restore finds ReplicaFailure absent the result is status True with the
\* deployment's replicas at the original count.
C10_HardModeOrder ==
    hardInvoked =>
        LET full == << [call |-> "replace", replicas |-> num_replicas_before],
                       [call |-> "patch", replicas |-> 0],
                       [call |-> "patch", replicas |-> num_replicas_before] >>
        IN /\ Len(accepted) \in 1..3
           /\ accepted = SubSeq(full, 1, Len(accepted))
           /\ caller = "zero" => replica_number = 0
           /\ caller = "restore" =>
                 /\ replica_number = num_replicas_before
                 /\ Len(accepted) >= 2
           /\ caller = "none" => accepted = full
           /\ pc = "done" /\ caller = "none" /\ tries = 0 =>
                 /\ result
                 /\ reads = 1
                 /\ deployment.replicas = num_replicas_before

C10_Witness ==
    /\ hardInvoked /\ pc = "done" /\ result /\ tries = 0
    /\ num_replicas_before > 0
    /\ Len(accepted) = 3

\* the steps of this object (not those of the cluster or of another client)
ProgramStep == <<obj, ctl>>' # <<obj, ctl>>

\* the largest number of steps a run can still take from the current position
Rank ==
    LET A == AffinityMaxTries
        R == ReplicaMaxTries
        P == PollMaxTries
    IN CASE pc = "ready" -> 2 * A + 2 * R + P + 10
         [] pc = "replace" -> 2 * (A - tries) + 2 * R + P + 9
         [] pc = "refetch" -> 2 * (A - tries) + 2 * R + P + 10
         [] pc = "replaced" -> 2 * R + P + 8
         [] pc = "soft_read" -> 2 * R + P + 7
         [] pc = "exhausted" -> R + 3
         [] pc = "patch" /\ caller = "zero" -> 2 * R + P + 6 - tries
         [] pc = "patched" /\ caller = "zero" -> R + P + 5
         [] pc = "patch" /\ caller = "restore" -> R + P + 4 - tries
         [] pc = "patched" /\ caller = "restore" -> P + 3
         [] pc = "patch" /\ caller = "rollback" -> R + 2 - tries
         [] pc = "patched" /\ caller = "rollback" -> 1
         [] pc = "conv_read" -> P + 2
         [] pc = "conv_loop" -> P + 1 - tries
         [] OTHER -> 0

MaxSteps == 2 * AffinityMaxTries + 2 * ReplicaMaxTries + PollMaxTries + 10

\* C11: every run of reallocate_pod ends: each step of the run (one API call
\* with the wait that follows it, at most) lowers a measure that starts at
\* 2*60 + 2*60 + 60 + 10 and never goes below 0, whatever the API answers; a
\* position with measure 0 is one where the run has returned or raised.
C11_BoundedRun ==
    /\ [](Rank \in 0..MaxSteps)
    /\ [](pc \notin {"new", "init_failed"} /\ Rank = 0 => Terminated)
    /\ [][pc # "new" /\ ProgramStep => Rank' < Rank]_vars

C11_Witness ==
    /\ pc = "done" /\ hardInvoked /\ raisedBy = "reallocate_pod"
    /\ tries = PollMaxTries /\ Len(accepted) = 3

\* C12: num_replicas_before is the replica count read by the constructor, no
\* step after construction changes it, and every rollback and every restore
\* call of _set_pod_replica gets exactly that value, also while the cached
\* object says 0 replicas.
C12_OriginalReplicas ==
    /\ [](caller \in {"restore", "rollback"} => replica_number = num_replicas_before)
    /\ [](\A i \in 1..Len(rollback) : rollback[i] = num_replicas_before)
    /\ [][pc = "new" /\ pc' = "ready" => num_replicas_before' = deployment.replicas]_vars
    /\ [][pc # "new" => num_replicas_before' = num_replicas_before]_vars

C12_Witness ==
    /\ pc = "patch" /\ caller = "restore"
    /\ resource.replicas = 0
    /\ num_replicas_before > 0
    /\ replica_number = num_replicas_before

\* C13: in _update_pod_affinity every failed attempt but the last is followed
\* by exactly one wait and one re-fetch before the next attempt; the next
\* attempt works on the re-fetched object, not on the object of the failed
\* attempt; the last failed attempt is followed by neither.
C13_RefetchBetweenAttempts ==
    /\ [](pc = "replace" => reads = attempts /\ waits = attempts)
    /\ [](pc = "refetch" => reads = attempts - 1 /\ waits = attempts)
    /\ [](pc = "exhausted" => reads = attempts - 1 /\ waits = attempts - 1)
    /\ [][pc = "refetch" /\ pc' = "replace" => resource' = deployment]_vars
    /\ [][pc = "replace" /\ pc' = "replace" => resource' = resource]_vars
    /\ [][pc = "replace" /\ pc' # "replace" =>
             /\ resource'.generation = resource.generation
             /\ resource'.replicas = resource.replicas]_vars

C13_Witness ==
    /\ pc = "replace" /\ attempts = 2 /\ reads = 2
    /\ writes = 1
    /\ resource = deployment
    /\ resource.replicas # num_replicas_before

\* a read issued inside _update_pod_affinity or _set_pod_replica raised out
\* of reallocate_pod
RaisedInMutator ==
    /\ pc = "raised"
    /\ \/ caller \in {"zero", "restore"}
       \/ softStatus = "unread" /\ lastSleep # SettleDelay

\* C14: a failed read issued inside a mutator (the re-fetch before a retry,
\* the read after an accepted replace, the read after an accepted patch) is
\* retried by the mutator's loop and never leaves it as the API's exception.
C14_ReadFailuresRetried == ~RaisedInMutator

\* C15: after construction and after every operation that refreshes the
\* cached object, current_version is the generation of the cached object.
C15_TracksGeneration ==
    pc \in {"ready", "soft_read", "conv_read", "conv_loop", "done"} =>
        current_version = resource.generation

\* the one preferred term the caller's list stands for
ExpectedAffinity ==
    << [weight |-> 1, key |-> "kubernetes.io/hostname", operator |-> "In",
        values |-> values] >>

\* C16: every replace body, on the first attempt and on every retry, has as
\* affinity exactly one preferred term of weight 1 on kubernetes.io/hostname
\* with operator In and the caller's list, in place of whatever affinity the
\* object had; every other field of the body is the object's.
C16_ReplaceBody ==
    /\ [](pc \in {"refetch", "replaced", "exhausted"} => resource.affinity = ExpectedAffinity)
    /\ [][pc = "replace" /\ pc' # "replace" =>
             resource' = [resource EXCEPT !.affinity = ExpectedAffinity]]_vars
    /\ [][pc = "replace" /\ pc' = "replaced" =>
             /\ deployment'.affinity = ExpectedAffinity
             /\ Len(deployment'.affinity) = 1
             /\ deployment'.replicas = resource.replicas]_vars

C16_Witness ==
    /\ pc = "refetch" /\ attempts = 2
    /\ values # << >>
    /\ deployment.affinity = OtherAffinity
    /\ resource.affinity = ExpectedAffinity

\* C17: after a write by another client the replace is rejected; the attempt
\* that follows the re-fetch carries the server's generation and replica
\* count, so it conflicts only if the other client writes again; an accepted
\* replace leaves the server's replica count as the other client set it and
\* sets this workflow's affinity; the affinity changes only when a replace of
\* this workflow or a write of the other client is accepted.
C17_ConflictResolved ==
    /\ [][pc = "refetch" /\ pc' = "replace" =>
             /\ resource'.generation = deployment'.generation
             /\ resource'.replicas = deployment'.replicas]_vars
    /\ [][/\ pc = "replace" /\ pc' = "replace"
          /\ resource.generation = deployment.generation
          /\ resource'.generation # deployment'.generation
          => writes' = writes + 1]_vars
    /\ [][pc = "replace" /\ pc' = "replaced" =>
             /\ resource.generation = deployment.generation
             /\ deployment'.replicas = deployment.replicas
             /\ deployment'.affinity = ExpectedAffinity]_vars
    /\ [][deployment'.affinity # deployment.affinity =>
             \/ pc = "replace" /\ pc' = "replaced"
             \/ writes' = writes + 1]_vars

C17_Witness ==
    /\ pc = "replaced" /\ attempts = 2 /\ failures = 1
    /\ writes = 1
    /\ deployment.replicas # num_replicas_before
    /\ deployment.affinity = ExpectedAffinity

\* C18 as stated: the first replace body is built from the deployment as it
\* is when _update_pod_affinity starts.
C18_FirstBodyFresh ==
    pc = "replace" /\ attempts = 0 => resource.replicas = replicasAtCall

\* C18 amended: _update_pod_affinity issues no read before its first
\* attempt; the first body is built from the cached object, which is the one
\* the constructor fetched; a write made since then is not in it, the first
\* attempt is rejected, and the re-fetch before the second attempt brings it.
C18_FirstBodyCached ==
    /\ [](pc = "replace" /\ attempts = 0 =>
             /\ reads = 0
             /\ resource.replicas = num_replicas_before
             /\ resource.generation = current_version)
    /\ [][pc = "ready" /\ pc' = "replace" => resource' = resource]_vars
    /\ [][pc = "replace" /\ attempts = 0 /\ writes > 0 => pc' # "replaced"]_vars

C18_Witness ==
    /\ pc = "replace" /\ attempts = 0
    /\ writes = 1
    /\ deployment.replicas # resource.replicas

\* C19: when reallocate_pod returns status True and nothing else writes the
\* deployment, its replica count is num_replicas_before, with or without
\* hard mode.
C19_TrueMeansRestored ==
    pc = "done" /\ result =>
        /\ deployment.replicas = num_replicas_before
        /\ accepted[Len(accepted)].replicas = num_replicas_before
        /\ hardInvoked => Len(accepted) = 3

C19_Witness ==
    /\ pc = "done" /\ result /\ hardInvoked
    /\ tries = PollMaxTries
    /\ num_replicas_before > 0

\* C20: when reallocate_pod returns, status True or False, and nothing else
\* writes the deployment, its replica count is num_replicas_before.
C20_ResultMeansRestored ==
    pc = "done" => deployment.replicas = num_replicas_before
====
